---- MODULE Spec2Model ----
(***************************************************************************)
(* Model of package sazabi (logger.go): a process-wide logger handle, set  *)
(* by Initialize from an environment label, read by eighteen global        *)
(* logging functions, and Default(), which builds a private logger.        *)
(*                                                                         *)
(* The zap calls the package makes (Config.Build, the sugared logger's     *)
(* level check, the sampler core, the write-then-panic / write-then-exit   *)
(* hooks) are modelled by what they do to the entry handed to them.        *)
(***************************************************************************)
EXTENDS Integers, Sequences, FiniteSets, TLC

VARIABLES
    logger,      \* the package variable `logger`: an interface value, two words
    counts,      \* counters of the sampler core of the logger that Initialize built
    now,         \* wall clock, in sampler ticks (one second each)
    proc,        \* "running", "exited" (os.Exit by Fatal) or "crashed" (unrecovered panic)
    last,        \* the most recent call: the handle it found, and what it did
    lastEnv,     \* history: label of the most recent Initialize that returned
    burst,       \* history: entries handed to the sampled logger this second
    pend         \* SpecRace only: the store of Initialize that is in flight

vars == <<logger, counts, now, proc, last, lastEnv, burst, pend>>

----------------------------------------------------------------------------
(* Bounds of the model *)

\* the clock stops advancing here
MaxTime == 1
\* one counter of a sampler may be driven up to this value ...
MaxCount == 201
\* ... while every other counter of that sampler is still zero; otherwise
\* the counters in use hold at most MaxMixed entries together
MaxMixed == 2

----------------------------------------------------------------------------
(* Values *)

ProductionEnvName == "production"
ProductionEnvShortName == "prod"

\* environment labels handed to Initialize
Envs == {"production", "prod", "", "development", "test", "Production", "PROD", " prod"}

\* messages that reach the logger
Msgs == {"disk full", "retry"}

\* arguments handed to the plain functions (Debug(args...), ...)
PlainArgs == {<<"disk full">>, <<"re", "try">>}

\* template and arguments handed to the formatted functions (Debugf, ...)
FormatInputs == {[template |-> "retry", args |-> <<>>],
                 [template |-> "%s %s", args |-> <<"disk", "full">>]}

\* message and keys and values handed to the structured functions (Debugw, ...)
StructInputs == {[msg |-> "disk full", keysValues |-> <<>>],
                 [msg |-> "retry", keysValues |-> <<"user", "alice">>]}

Nil == [tag |-> "nil"]
\* no Initialize has returned yet
NoEnv == "<none>"
NoLine == [tag |-> "noline"]
NoSampling == [tag |-> "nosampling"]

\* zapcore.Level order: Debug < Info < Warn < Error < DPanic < Panic < Fatal
Rank == [debug |-> 0, info |-> 1, warn |-> 2, error |-> 3, dpanic |-> 4, panic |-> 5, fatal |-> 6]

Levels == {"debug", "info", "warn", "error", "panic", "fatal"}

SugaredType == "*zap.SugaredLogger"

\* the nil interface value: no type word, no data word
NilHandle == [tab |-> "nil", data |-> Nil]

----------------------------------------------------------------------------
(* Configurations: newProductionConfig, zap.NewDevelopmentConfig *)

newProductionEncoderConfig ==
    [TimeKey |-> "ts", LevelKey |-> "level", NameKey |-> "logger",
     CallerKey |-> "caller", MessageKey |-> "msg", StacktraceKey |-> "stacktrace",
     EncodeLevel |-> "CapitalLevelEncoder", EncodeTime |-> "ISO8601TimeEncoder",
     EncodeDuration |-> "SecondsDurationEncoder", EncodeCaller |-> "ShortCallerEncoder"]

\* zap.NewDevelopmentEncoderConfig
NewDevelopmentEncoderConfig ==
    [TimeKey |-> "T", LevelKey |-> "L", NameKey |-> "N",
     CallerKey |-> "C", MessageKey |-> "M", StacktraceKey |-> "S",
     EncodeLevel |-> "CapitalLevelEncoder", EncodeTime |-> "ISO8601TimeEncoder",
     EncodeDuration |-> "StringDurationEncoder", EncodeCaller |-> "ShortCallerEncoder"]

\* Sampling.Initial and Sampling.Thereafter of the production configuration
Initial == 100
Thereafter == 100

\* a production configuration that forgets to raise the level
newProductionConfigVerbose ==
    [Level |-> "debug", Development |-> FALSE,
     Sampling |-> [Initial |-> Initial, Thereafter |-> Thereafter],
     Encoding |-> "console", EncoderConfig |-> newProductionEncoderConfig,
     OutputPaths |-> <<"stderr">>, ErrorOutputPaths |-> <<"stderr">>,
     DisableStacktrace |-> FALSE]

newProductionConfig ==
    [Level |-> "info", Development |-> FALSE,
     Sampling |-> [Initial |-> Initial, Thereafter |-> Thereafter],
     Encoding |-> "console", EncoderConfig |-> newProductionEncoderConfig,
     OutputPaths |-> <<"stderr">>, ErrorOutputPaths |-> <<"stderr">>,
     DisableStacktrace |-> FALSE]

\* zap.NewDevelopmentConfig()
NewDevelopmentConfig ==
    [Level |-> "debug", Development |-> TRUE,
     Sampling |-> NoSampling,
     Encoding |-> "console", EncoderConfig |-> NewDevelopmentEncoderConfig,
     OutputPaths |-> <<"stderr">>, ErrorOutputPaths |-> <<"stderr">>,
     DisableStacktrace |-> FALSE]

\* strings.ToLower(strings.TrimSpace(label)) on the labels of the model
Folded ==
    [e \in Envs |->
        CASE e \in {"production", "Production"} -> "production"
          [] e \in {"prod", "PROD", " prod"}     -> "prod"
          [] OTHER                               -> e]

\* a resolver that compares the label case-insensitively, after trimming
resolveFolded(environment) ==
    LET conf == IF Folded[environment] # ProductionEnvName
                   /\ Folded[environment] # ProductionEnvShortName
                THEN NewDevelopmentConfig
                ELSE newProductionConfig
    IN  [conf EXCEPT !.DisableStacktrace = TRUE]

\* Initialize, up to conf.Build(): the configuration the label selects
resolve(environment) ==
    LET conf == IF environment # ProductionEnvName
                   /\ environment # ProductionEnvShortName
                THEN NewDevelopmentConfig
                ELSE newProductionConfig
    IN  [conf EXCEPT !.DisableStacktrace = TRUE]

\* encoders zap registers, and sinks zap.Open can always open
RegisteredEncoders == {"console", "json"}
OpenableSinks == {"stdout", "stderr"}

Elems(seq) == {seq[i] : i \in DOMAIN seq}

\* conf.Build(): the error, or the logger: a core that filters by level,
\* wrapped in a sampler when Sampling is set; stack traces from Warn
\* (development) or Error up unless disabled; callers annotated
Build(conf) ==
    IF \/ conf.Encoding \notin RegisteredEncoders
       \/ ~(Elems(conf.OutputPaths) \subseteq OpenableSinks)
       \/ ~(Elems(conf.ErrorOutputPaths) \subseteq OpenableSinks)
    THEN [err |-> TRUE, log |-> Nil]
    ELSE [err |-> FALSE,
          log |-> [level |-> conf.Level,
                   development |-> conf.Development,
                   sampling |-> conf.Sampling,
                   encoding |-> conf.Encoding,
                   encoderConfig |-> conf.EncoderConfig,
                   out |-> conf.OutputPaths,
                   errOut |-> conf.ErrorOutputPaths,
                   addStack |-> IF conf.DisableStacktrace THEN "never"
                                ELSE IF conf.Development THEN "warn" ELSE "error",
                   callerSkip |-> 0]]

\* log.WithOptions(zap.AddCallerSkip(1)).Sugar()
WithCallerSkipSugar(log) == [log EXCEPT !.callerSkip = @ + 1]

----------------------------------------------------------------------------
(* The sugared logger: level check, sampler, write, terminal behaviour *)

\* the sampler keeps one counter per level and message (it indexes them by a
\* hash of the message; the messages of Msgs hash to different counters)
Keys == Levels \X Msgs

ZeroCounter == [n |-> 0, resetAt |-> 0]
ZeroCounts == [k \in Keys |-> ZeroCounter]

\* counter.IncCheckReset(t, tick), tick = one second = one unit of `now`
IncCheckReset(c, t) ==
    IF c.resetAt > t
    THEN [c EXCEPT !.n = @ + 1]
    ELSE [n |-> 1, resetAt |-> t + 1]

\* a level check that lets only levels above the threshold through
EnabledStrict(log, lvl) == Rank[lvl] > Rank[log.level]

\* core.Enabled(lvl): the level is at or above the configured one
Enabled(log, lvl) == Rank[lvl] >= Rank[log.level]

\* a logger whose Fatal hook panics instead of exiting
TerminalNoExit(lvl) ==
    CASE lvl = "panic" -> "panic"
      [] lvl = "fatal" -> "panic"
      [] OTHER         -> "return"

\* what follows the write: Panic panics (WriteThenPanic), Fatal exits the
\* process (WriteThenFatal: os.Exit(1)), the other levels return
Terminal(lvl) ==
    CASE lvl = "panic" -> "panic"
      [] lvl = "fatal" -> "exit"
      [] OTHER         -> "return"

\* a sampler whose initial burst is one entry short
DroppedOffByOne(sampling, n) ==
    /\ n > sampling.Initial - 1
    /\ \/ sampling.Thereafter = 0
       \/ (n - (sampling.Initial - 1)) % sampling.Thereafter # 0

\* a sampler that drops everything after its initial burst
DroppedAfterInitial(sampling, n) == n > sampling.Initial

\* what the sampler decides for the n-th entry of a counter's tick
Dropped(sampling, n) ==
    /\ n > sampling.Initial
    /\ \/ sampling.Thereafter = 0
       \/ (n - sampling.Initial) % sampling.Thereafter # 0

\* fmt.Sprint of string operands: no space is added between strings
RECURSIVE Sprint(_)
Sprint(args) ==
    IF args = <<>> THEN "" ELSE Head(args) \o Sprint(Tail(args))

\* fmt.Sprintf for the templates of the model: text without a verb, and
\* two %s verbs separated by a space
Sprintf(template, args) ==
    IF template = "%s %s" THEN args[1] \o " " \o args[2] ELSE template

\* getMessage(template, fmtArgs) of the sugared logger
getMessage(template, fmtArgs) ==
    IF Len(fmtArgs) = 0 THEN template
    ELSE IF template # "" THEN Sprintf(template, fmtArgs)
    ELSE IF Len(fmtArgs) = 1 THEN fmtArgs[1]
    ELSE Sprint(fmtArgs)

\* sweetenFields(context): the keys and values, paired in order
sweetenFields(context) ==
    [i \in 1..(Len(context) \div 2) |-> <<context[2 * i - 1], context[2 * i]>>]

\* (*SugaredLogger).log for one entry: a disabled level below DPanic returns
\* at once; the sampler counts an enabled entry and may drop it; an entry
\* that passes is written; Panic and Fatal then panic or exit, written or not
SugaredLog(log, lvl, template, fmtArgs, context, cnts, t) ==
    LET terminal == Terminal(lvl)
        msg == getMessage(template, fmtArgs)
        line == [level |-> lvl, msg |-> msg, fields |-> sweetenFields(context)]
        key == <<lvl, msg>>
    IN  IF Rank[lvl] < Rank.dpanic /\ ~Enabled(log, lvl)
        THEN [out |-> NoLine, n |-> 0, counts |-> cnts, outcome |-> "return"]
        ELSE IF ~Enabled(log, lvl)
        THEN [out |-> NoLine, n |-> 0, counts |-> cnts, outcome |-> terminal]
        ELSE IF log.sampling = NoSampling
        THEN [out |-> line, n |-> 0, counts |-> cnts, outcome |-> terminal]
        ELSE LET c == IncCheckReset(cnts[key], t)
             IN  [out |-> IF Dropped(log.sampling, c.n) THEN NoLine ELSE line,
                  n |-> c.n,
                  counts |-> [cnts EXCEPT ![key] = c],
                  outcome |-> terminal]

\* the methods of the sugared logger: severity and argument shape
MethodLevel ==
    [Debug |-> "debug", Debugf |-> "debug", Debugw |-> "debug",
     Info  |-> "info",  Infof  |-> "info",  Infow  |-> "info",
     Warn  |-> "warn",  Warnf  |-> "warn",  Warnw  |-> "warn",
     Error |-> "error", Errorf |-> "error", Errorw |-> "error",
     Fatal |-> "fatal", Fatalf |-> "fatal", Fatalw |-> "fatal",
     Panic |-> "panic", Panicf |-> "panic", Panicw |-> "panic"]

MethodShape ==
    [Debug |-> "plain", Debugf |-> "formatted", Debugw |-> "structured",
     Info  |-> "plain", Infof  |-> "formatted", Infow  |-> "structured",
     Warn  |-> "plain", Warnf  |-> "formatted", Warnw  |-> "structured",
     Error |-> "plain", Errorf |-> "formatted", Errorw |-> "structured",
     Fatal |-> "plain", Fatalf |-> "formatted", Fatalw |-> "structured",
     Panic |-> "plain", Panicf |-> "formatted", Panicw |-> "structured"]

\* (*SugaredLogger).<method>: s.log(lvl, "", args, nil) for the plain
\* methods, s.log(lvl, template, args, nil) for the formatted ones,
\* s.log(lvl, msg, nil, keysAndValues) for the structured ones
SugaredMethod(log, method, sent, cnts, t) ==
    CASE MethodShape[method] = "plain" ->
            SugaredLog(log, MethodLevel[method], "", sent.args, <<>>, cnts, t)
      [] MethodShape[method] = "formatted" ->
            SugaredLog(log, MethodLevel[method], sent.template, sent.args, <<>>, cnts, t)
      [] MethodShape[method] = "structured" ->
            SugaredLog(log, MethodLevel[method], sent.msg, <<>>, sent.keysValues, cnts, t)

\* a facade that falls back to a private development logger when the
\* handle is nil
InvokeLazy(h, method, sent, cnts, t) ==
    IF h.tab = "nil" \/ h.data = Nil
    THEN SugaredMethod(WithCallerSkipSugar(Build(resolve("development")).log),
                       method, sent, cnts, t)
    ELSE SugaredMethod(h.data, method, sent, cnts, t)

\* logger.<method>(...) on the interface value h: a nil interface, or a nil
\* *SugaredLogger behind a type word, is a nil-pointer dereference
Invoke(h, method, sent, cnts, t) ==
    IF h.tab = "nil" \/ h.data = Nil
    THEN [out |-> NoLine, n |-> 0, counts |-> cnts, outcome |-> "nilpanic"]
    ELSE SugaredMethod(h.data, method, sent, cnts, t)

RECURSIVE Total(_, _)
Total(cnts, ks) ==
    IF ks = {} THEN 0
    ELSE LET k == CHOOSE x \in ks : TRUE
         IN  cnts[k].n + Total(cnts, ks \ {k})

\* the counters the model explores: one counter alone up to MaxCount, or
\* several counters in use that hold at most MaxMixed entries together;
\* calls that the sampler does not count are explored outside long bursts
WithinBounds(cnts) ==
    LET used == {k \in Keys : cnts[k].n > 0}
    IN  \/ Cardinality(used) <= 1 /\ \A k \in used : cnts[k].n <= MaxCount
        \/ Total(cnts, used) <= MaxMixed

\* no counter of the sampler is in a long burst
Calm(cnts) == \A k \in Keys : cnts[k].n <= MaxMixed

\* where a call that ended in `outcome` leaves the process: a panic is
\* recovered by an enclosing deferred recover(), or it kills the process
After(outcome) ==
    CASE outcome = "return" -> {"running"}
      [] outcome = "exit"   -> {"exited"}
      [] OTHER              -> {"running", "crashed"}

LevelOf ==
    [Debug |-> "debug", Debugf |-> "debug", Debugw |-> "debug",
     Info  |-> "info",  Infof  |-> "info",  Infow  |-> "info",
     Warn  |-> "warn",  Warnf  |-> "warn",  Warnw  |-> "warn",
     Error |-> "error", Errorf |-> "error", Errorw |-> "error",
     Fatal |-> "fatal", Fatalf |-> "fatal", Fatalw |-> "fatal",
     Panic |-> "panic", Panicf |-> "panic", Panicw |-> "panic"]

LogOps == DOMAIN LevelOf
OpsAt(lvls) == {op \in LogOps : LevelOf[op] \in lvls}

\* the entry that the call op(in), as the caller wrote it, asks for
Entry(op, in) ==
    [level |-> LevelOf[op],
     msg |-> CASE op \in {"Debug", "Info", "Warn", "Error", "Fatal", "Panic"} ->
                    Sprint(in.args)
               [] op \in {"Debugf", "Infof", "Warnf", "Errorf", "Fatalf", "Panicf"} ->
                    Sprintf(in.template, in.args)
               [] OTHER -> in.msg,
     fields |-> IF op \in {"Debugw", "Infow", "Warnw", "Errorw", "Fatalw", "Panicw"}
                THEN sweetenFields(in.keysValues) ELSE <<>>]

\* history: no entry yet in this second
ZeroBurst == [k \in Keys |-> 0]

\* history, kept apart from the sampler's own counters: the call op(in) is
\* one more entry of its severity and message in this second, if the logger
\* it reaches has a sampling policy and the severity is Info or above
Counted(h, op, in, b) ==
    IF h.tab = "nil" \/ h.data = Nil THEN b
    ELSE IF h.data.sampling = NoSampling THEN b
    ELSE IF Rank[LevelOf[op]] < Rank["info"] THEN b
    ELSE [b EXCEPT ![<<LevelOf[op], Entry(op, in).msg>>] = @ + 1]

NoArgs == [tag |-> "noargs"]

NoCall == [op |-> "none", arg |-> "", in |-> NoArgs, method |-> "none",
           sent |-> NoArgs, seen |-> NilHandle, out |-> NoLine,
           n |-> 0, outcome |-> "return", ret |-> Nil, k |-> 0]

----------------------------------------------------------------------------
(* State and operations *)

Init ==
    /\ logger = NilHandle
    /\ counts = ZeroCounts
    /\ now = 0
    /\ proc = "running"
    /\ last = NoCall
    /\ lastEnv = NoEnv
    /\ burst = ZeroBurst
    /\ pend = Nil

\* one global logging function, called as op with the arguments `in`: it
\* calls `method` of the package's logger with the arguments `sent`
Call(op, in, method, sent) ==
    /\ proc = "running"
    /\ LET r == Invoke(logger, method, sent, counts, now)
       IN  /\ IF r.n = 0 THEN Calm(counts) ELSE WithinBounds(r.counts)
           /\ counts' = r.counts
           /\ last' = [op |-> op, arg |-> "", in |-> in, method |-> method,
                       sent |-> sent, seen |-> logger, out |-> r.out,
                       n |-> r.n, outcome |-> r.outcome, ret |-> Nil,
                       k |-> Counted(logger, op, in, burst)[<<LevelOf[op], Entry(op, in).msg>>]]
           /\ burst' = Counted(logger, op, in, burst)
           /\ proc' \in After(r.outcome)
    /\ UNCHANGED <<logger, now, lastEnv, pend>>

\* Initialize that assigns a local variable that shadows the package's
InitializeShadowed(environment) ==
    /\ proc = "running"
    /\ LET b == Build(resolve(environment))
       IN  /\ last' = [NoCall EXCEPT !.op = "Initialize", !.arg = environment,
                       !.seen = logger,
                       !.outcome = IF b.err THEN "panic" ELSE "return"]
           /\ proc' \in After(IF b.err THEN "panic" ELSE "return")
    /\ UNCHANGED <<logger, counts, lastEnv, burst, now, pend>>

\* Initialize that keeps a logger that is already installed (sync.Once style)
InitializeOnce(environment) ==
    /\ proc = "running"
    /\ LET b == Build(resolve(environment))
       IN  /\ IF b.err \/ logger # NilHandle
              THEN UNCHANGED <<logger, counts, burst>>
              ELSE /\ logger' = [tab |-> SugaredType, data |-> WithCallerSkipSugar(b.log)]
                   /\ counts' = ZeroCounts
                   /\ burst' = ZeroBurst
           /\ lastEnv' = IF b.err THEN lastEnv ELSE environment
           /\ last' = [NoCall EXCEPT !.op = "Initialize", !.arg = environment,
                       !.seen = logger,
                       !.outcome = IF b.err THEN "panic" ELSE "return"]
           /\ proc' \in After(IF b.err THEN "panic" ELSE "return")
    /\ UNCHANGED <<now, pend>>

\* Initialize(environment), run by the only goroutine: resolve, build, panic
\* on a build error, else install the sugared logger (with its new sampler)
Initialize(environment) ==
    /\ proc = "running"
    /\ LET b == Build(resolve(environment))
       IN  /\ IF b.err
              THEN UNCHANGED <<logger, counts, lastEnv, burst>>
              ELSE /\ logger' = [tab |-> SugaredType, data |-> WithCallerSkipSugar(b.log)]
                   /\ counts' = ZeroCounts
                   /\ burst' = ZeroBurst
                   /\ lastEnv' = environment
           /\ last' = [NoCall EXCEPT !.op = "Initialize", !.arg = environment,
                       !.seen = logger,
                       !.outcome = IF b.err THEN "panic" ELSE "return"]
           /\ proc' \in After(IF b.err THEN "panic" ELSE "return")
    /\ UNCHANGED <<now, pend>>

\* Default that also installs what it built as the process-wide logger
DefaultInstalls ==
    /\ proc = "running"
    /\ Calm(counts)
    /\ LET b == Build([NewDevelopmentConfig EXCEPT !.DisableStacktrace = TRUE])
       IN  /\ last' = [NoCall EXCEPT !.op = "Default", !.seen = logger,
                       !.outcome = IF b.err THEN "panic" ELSE "return",
                       !.ret = IF b.err THEN Nil ELSE WithCallerSkipSugar(b.log)]
           /\ logger' = IF b.err THEN logger
                        ELSE [tab |-> SugaredType, data |-> WithCallerSkipSugar(b.log)]
           /\ counts' = IF b.err THEN counts ELSE ZeroCounts
           /\ burst' = IF b.err THEN burst ELSE ZeroBurst
           /\ proc' \in After(IF b.err THEN "panic" ELSE "return")
    /\ UNCHANGED <<lastEnv, now, pend>>

\* Default(): build a development logger and return it; the package
\* variable is not touched
Default ==
    /\ proc = "running"
    /\ Calm(counts)
    /\ LET b == Build([NewDevelopmentConfig EXCEPT !.DisableStacktrace = TRUE])
       IN  /\ last' = [NoCall EXCEPT !.op = "Default", !.seen = logger,
                       !.outcome = IF b.err THEN "panic" ELSE "return",
                       !.ret = IF b.err THEN Nil ELSE WithCallerSkipSugar(b.log)]
           /\ proc' \in After(IF b.err THEN "panic" ELSE "return")
    /\ UNCHANGED <<logger, counts, lastEnv, burst, now, pend>>

\* the eighteen global logging functions
Debug ==
    \E a \in PlainArgs : Call("Debug", [args |-> a], "Debug", [args |-> a])
Debugf ==
    \E f \in FormatInputs : Call("Debugf", f, "Debugf", f)
Debugw ==
    \E kv \in StructInputs : Call("Debugw", kv, "Debugw", kv)
Info ==
    \E a \in PlainArgs : Call("Info", [args |-> a], "Info", [args |-> a])
Infof ==
    \E f \in FormatInputs : Call("Infof", f, "Infof", f)
Infow ==
    \E kv \in StructInputs : Call("Infow", kv, "Infow", kv)
Warn ==
    \E a \in PlainArgs : Call("Warn", [args |-> a], "Warn", [args |-> a])
Warnf ==
    \E f \in FormatInputs : Call("Warnf", f, "Warnf", f)
\* Warnw pasted from Infow with the method left unchanged
WarnwCallsInfow ==
    \E kv \in StructInputs : Call("Warnw", kv, "Infow", kv)

Warnw ==
    \E kv \in StructInputs : Call("Warnw", kv, "Warnw", kv)
Error ==
    \E a \in PlainArgs : Call("Error", [args |-> a], "Error", [args |-> a])
Errorf ==
    \E f \in FormatInputs : Call("Errorf", f, "Errorf", f)
Errorw ==
    \E kv \in StructInputs : Call("Errorw", kv, "Errorw", kv)
Fatal ==
    \E a \in PlainArgs : Call("Fatal", [args |-> a], "Fatal", [args |-> a])
Fatalf ==
    \E f \in FormatInputs : Call("Fatalf", f, "Fatalf", f)
Fatalw ==
    \E kv \in StructInputs : Call("Fatalw", kv, "Fatalw", kv)
Panic ==
    \E a \in PlainArgs : Call("Panic", [args |-> a], "Panic", [args |-> a])
Panicf ==
    \E f \in FormatInputs : Call("Panicf", f, "Panicf", f)
Panicw ==
    \E kv \in StructInputs : Call("Panicw", kv, "Panicw", kv)

\* a second passes
Advance ==
    /\ proc = "running"
    /\ now < MaxTime
    /\ now' = now + 1
    /\ burst' = ZeroBurst
    /\ UNCHANGED <<logger, counts, proc, last, lastEnv, pend>>

Next ==
    \/ \E environment \in Envs : Initialize(environment)
    \/ Default
    \/ Advance
    \/ Debug
    \/ Debugf
    \/ Debugw
    \/ Info
    \/ Infof
    \/ Infow
    \/ Warn
    \/ Warnf
    \/ Warnw
    \/ Error
    \/ Errorf
    \/ Errorw
    \/ Fatal
    \/ Fatalf
    \/ Fatalw
    \/ Panic
    \/ Panicf
    \/ Panicw

Spec == Init /\ [][Next]_vars

----------------------------------------------------------------------------
(* Properties *)

ProductionLabels == {"production", "prod"}

\* the entry a call of the last operation is expected to write
LastLine == Entry(last.op, last.in)

\* C1: after Initialize("production") or Initialize("prod") has returned, the
\* installed logger has minimum level Info, development mode off, sampling
\* {initial 100, thereafter 100}, console encoding and no stack traces.
C1_ProductionConfiguration ==
    lastEnv \in ProductionLabels =>
        /\ logger.tab = SugaredType
        /\ logger.data.level = "info"
        /\ logger.data.development = FALSE
        /\ logger.data.sampling = [Initial |-> 100, Thereafter |-> 100]
        /\ logger.data.encoding = "console"
        /\ logger.data.addStack = "never"

C1_Witness ==
    /\ last.op = "Initialize" /\ last.arg = "prod" /\ last.outcome = "return"
    /\ lastEnv = "prod"
    /\ logger.data.level = "info"

\* C2: after Initialize with any label other than exactly "production" or
\* "prod" has returned (the empty label, "development", "test", "Production",
\* "PROD", " prod"), the installed logger has minimum level Debug,
\* development mode on, no sampling and no stack traces.
C2_DevelopmentConfiguration ==
    (lastEnv # NoEnv /\ lastEnv \notin ProductionLabels) =>
        /\ logger.tab = SugaredType
        /\ logger.data.level = "debug"
        /\ logger.data.development = TRUE
        /\ logger.data.sampling = NoSampling
        /\ logger.data.addStack = "never"

C2_Witness ==
    /\ last.op = "Initialize" /\ last.arg = "PROD" /\ last.outcome = "return"
    /\ lastEnv = "PROD"
    /\ logger.data.level = "debug"

\* the last operation was a global logging call that found a logger
LoggedThroughLogger == last.op \in LogOps /\ last.seen.data # Nil

\* C3 as stated: after Initialize("production") or Initialize("prod"), every
\* Debug-level call writes nothing and every Info-, Warn- and Error-level
\* call writes an entry with its message.
C3_AsStated ==
    (lastEnv \in ProductionLabels /\ LoggedThroughLogger) =>
        /\ last.op \in OpsAt({"debug"}) => last.out = NoLine
        /\ last.op \in OpsAt({"info", "warn", "error"}) => last.out = LastLine

\* C3, amended: after Initialize("production") or Initialize("prod"), every
\* Debug-level call writes nothing, is not counted and returns; an Info-,
\* Warn- or Error-level call returns, and it writes an entry with its message
\* whenever the sampler has counted at most 100 entries of its severity and
\* message in the current second; beyond that the sampler may drop it.
C3_ProductionOutput ==
    (lastEnv \in ProductionLabels /\ LoggedThroughLogger) =>
        /\ last.op \in OpsAt({"debug"}) =>
              last.out = NoLine /\ last.n = 0 /\ last.outcome = "return"
        /\ last.op \in OpsAt({"info", "warn", "error"}) =>
              /\ last.n >= 1
              /\ last.outcome = "return"
              /\ last.out \in {NoLine, LastLine}
              /\ last.n <= 100 => last.out = LastLine

C3_Witness ==
    /\ lastEnv = "production"
    /\ last.op = "Info"
    /\ last.n = 101
    /\ last.out = NoLine

\* C4: after Initialize with a label that is not a production label, every
\* call at each of the six severities writes an entry of that severity with
\* its message: nothing is filtered by level and nothing is sampled away.
C4_DevelopmentOutput ==
    (lastEnv # NoEnv /\ lastEnv \notin ProductionLabels /\ LoggedThroughLogger) =>
        /\ last.out = LastLine
        /\ last.n = 0

C4_Witness ==
    /\ lastEnv = "development"
    /\ last.op = "Debug"
    /\ last.out = [level |-> "debug", msg |-> "retry", fields |-> <<>>]

\* C5: the installed logger is the one the label of the most recent
\* Initialize selects, with nothing kept from the logger it replaced (level,
\* development mode, sampling policy, a new sampler with empty counters), so a
\* Debug-level call writes its entry exactly when that label is not a
\* production label.
C5_LastInitializeDecides ==
    /\ lastEnv # NoEnv =>
          /\ logger.tab = SugaredType
          /\ logger.data.level =
                (IF lastEnv \in ProductionLabels THEN "info" ELSE "debug")
          /\ logger.data.development = (lastEnv \notin ProductionLabels)
          /\ logger.data.sampling =
                (IF lastEnv \in ProductionLabels
                 THEN [Initial |-> 100, Thereafter |-> 100] ELSE NoSampling)
    /\ (last.op = "Initialize" /\ last.outcome = "return") =>
          /\ lastEnv = last.arg
          /\ \A k \in Keys : counts[k].n = 0
    /\ (lastEnv # NoEnv /\ last.op \in OpsAt({"debug"})) =>
          (last.out = LastLine <=> lastEnv \notin ProductionLabels)

C5_Witness ==
    /\ last.op = "Initialize" /\ last.outcome = "return"
    /\ last.seen.data # Nil
    /\ last.seen.data.level = "info"
    /\ logger.data.level = "debug"

\* C6: a call of Default() returns a logger that is not nil and is a
\* development logger (level Debug, development mode, no sampling, no stack
\* traces), and it changes neither the process-wide logger nor its sampler's
\* counters, nor the label a later global call answers to.
C6_DefaultLeavesGlobal ==
    [][(last'.op = "Default" /\ now' = now) =>
          /\ last'.outcome = "return"
          /\ last'.ret # Nil
          /\ last'.ret.level = "debug"
          /\ last'.ret.development = TRUE
          /\ last'.ret.sampling = NoSampling
          /\ last'.ret.addStack = "never"
          /\ logger' = logger
          /\ counts' = counts
          /\ lastEnv' = lastEnv]_vars

C6_Witness ==
    /\ last.op = "Default" /\ last.outcome = "return"
    /\ last.ret # Nil
    /\ lastEnv = "production"
    /\ logger.data.level = "info"
    /\ \E k \in Keys : counts[k].n > 0

\* C8: Initialize panics exactly when conf.Build() returns an error, and then
\* leaves the handle as it was; when the build succeeds, as it does for every
\* label, Initialize returns with the process-wide logger set.
C8_InitializePanicsOnBuildError ==
    last.op = "Initialize" =>
        /\ last.outcome = "panic" <=> Build(resolve(last.arg)).err
        /\ last.outcome = "panic" => logger = last.seen
        /\ ~Build(resolve(last.arg)).err =>
              /\ last.outcome = "return"
              /\ logger.tab = SugaredType
              /\ logger.data # Nil
              /\ lastEnv = last.arg

C8_Witness ==
    /\ last.op = "Initialize" /\ last.arg = "test"
    /\ last.outcome = "return"
    /\ logger.tab = SugaredType /\ logger.data # Nil

\* C9: while no Initialize has returned, each of the eighteen global logging
\* calls ends in a nil-pointer panic: it writes nothing, does not return
\* normally, and installs no logger.
C9_CallBeforeInitializeCrashes ==
    (last.op \in LogOps /\ lastEnv = NoEnv) =>
        /\ last.outcome = "nilpanic"
        /\ last.out = NoLine
        /\ logger = NilHandle
        /\ proc \in {"running", "crashed"}

C9_Witness ==
    /\ lastEnv = NoEnv
    /\ last.op = "Infow"
    /\ last.outcome = "nilpanic"
    /\ proc = "crashed"

\* C10 as stated: with a logger installed, every Fatal-level call writes its
\* entry and exits the process, after which nothing happens; every
\* Panic-level call writes its entry and panics.
C10_AsStated ==
    /\ proc = "exited" <=> (LoggedThroughLogger /\ last.op \in OpsAt({"fatal"}))
    /\ (LoggedThroughLogger /\ last.op \in OpsAt({"fatal"})) =>
          last.out = LastLine /\ last.outcome = "exit"
    /\ (LoggedThroughLogger /\ last.op \in OpsAt({"panic"})) =>
          last.out = LastLine /\ last.outcome = "panic"

\* C10, amended: with a logger installed, every Fatal-level call writes its
\* entry and exits the process, so that it stays the last call; every
\* Panic-level call panics and never returns normally, and it has written
\* its entry before whenever the logger has no sampler (development) or the
\* sampler has counted at most 100 entries of that message in the current
\* second; beyond that the sampler may drop the entry, and the call panics
\* all the same.
C10_FatalExitsPanicPanics ==
    /\ proc = "exited" <=> (LoggedThroughLogger /\ last.op \in OpsAt({"fatal"}))
    /\ (LoggedThroughLogger /\ last.op \in OpsAt({"fatal"})) =>
          last.out = LastLine /\ last.outcome = "exit"
    /\ (LoggedThroughLogger /\ last.op \in OpsAt({"panic"})) =>
          /\ last.outcome = "panic"
          /\ last.out \in {NoLine, LastLine}
          /\ (lastEnv \notin ProductionLabels \/ last.n <= 100) =>
                last.out = LastLine

C10_Witness ==
    /\ lastEnv = "prod"
    /\ last.op = "Panicf"
    /\ last.n = 101
    /\ last.out = NoLine
    /\ last.outcome = "panic"

\* C11: each of the eighteen global functions calls the method of the same
\* name (so the same severity and argument shape) of the process-wide logger
\* and passes its arguments unchanged and in order; an entry that is written
\* therefore has the severity of the function's name, the message its
\* arguments render to, and, for a structured call, every key and value as
\* given.
C11_ForwardsUnchanged ==
    last.op \in LogOps =>
        /\ last.method = last.op
        /\ last.sent = last.in
        /\ last.out \in {NoLine, LastLine}
        /\ last.out # NoLine => last.out.level = LevelOf[last.op]

C11_Witness ==
    /\ last.op = "Infow"
    /\ last.in = [msg |-> "retry", keysValues |-> <<"user", "alice">>]
    /\ last.out = [level |-> "info", msg |-> "retry",
                   fields |-> << <<"user", "alice">> >>]

\* the argument lists the model passes to a method of the given shape
InputsOf(method) ==
    CASE MethodShape[method] = "plain"     -> {[args |-> a] : a \in PlainArgs}
      [] MethodShape[method] = "formatted" -> FormatInputs
      [] OTHER                             -> StructInputs

----------------------------------------------------------------------------
(* Two goroutines: one runs Initialize, the other the logging functions.  *)
(* `logger` is an interface value of two words, a type word and a data    *)
(* word, and the assignment in Initialize is two unsynchronised stores    *)
(* whose order is not fixed; a logging function that runs between them    *)
(* loads one word of each value.                                          *)

\* Initialize in its own goroutine, up to the assignment: the value to store
InitializeBegin(environment) ==
    /\ proc = "running"
    /\ pend = Nil
    /\ LET b == Build(resolve(environment))
       IN  IF b.err
           THEN /\ proc' \in After("panic")
                /\ UNCHANGED pend
           ELSE /\ pend' = [val |-> [tab |-> SugaredType,
                                     data |-> WithCallerSkipSugar(b.log)],
                            env |-> environment, tab |-> FALSE, data |-> FALSE]
                /\ UNCHANGED proc
    /\ UNCHANGED <<logger, counts, now, last, lastEnv, burst>>

\* the assignment is complete once both words are stored
Stored(p) ==
    IF p.tab /\ p.data THEN Nil ELSE p

\* logger = ...: the store of the type word
StoreTab ==
    /\ proc = "running"
    /\ pend # Nil
    /\ ~pend.tab
    /\ logger' = [logger EXCEPT !.tab = pend.val.tab]
    /\ pend' = Stored([pend EXCEPT !.tab = TRUE])
    /\ lastEnv' = IF pend.data THEN pend.env ELSE lastEnv
    /\ UNCHANGED <<counts, now, proc, last, burst>>

\* logger = ...: the store of the data word, the pointer to the new logger
\* and with it to the new logger's sampler
StoreData ==
    /\ proc = "running"
    /\ pend # Nil
    /\ ~pend.data
    /\ logger' = [logger EXCEPT !.data = pend.val.data]
    /\ counts' = ZeroCounts
    /\ burst' = ZeroBurst
    /\ pend' = Stored([pend EXCEPT !.data = TRUE])
    /\ lastEnv' = IF pend.tab THEN pend.env ELSE lastEnv
    /\ UNCHANGED <<now, proc, last>>

\* the logging goroutine is explored without long bursts
Quiet == Total(counts, Keys) < MaxMixed

\* the labels the initializing goroutine passes: one of each kind
RaceEnvs == {"production", "development"}

NextRace ==
    \/ \E environment \in RaceEnvs : InitializeBegin(environment)
    \/ StoreTab
    \/ StoreData
    \/ Default
    \/ Advance
    \/ Quiet /\ Debug
    \/ Quiet /\ Debugf
    \/ Quiet /\ Debugw
    \/ Quiet /\ Info
    \/ Quiet /\ Infof
    \/ Quiet /\ Infow
    \/ Quiet /\ Warn
    \/ Quiet /\ Warnf
    \/ Quiet /\ Warnw
    \/ Quiet /\ Error
    \/ Quiet /\ Errorf
    \/ Quiet /\ Errorw
    \/ Quiet /\ Fatal
    \/ Quiet /\ Fatalf
    \/ Quiet /\ Fatalw
    \/ Quiet /\ Panic
    \/ Quiet /\ Panicf
    \/ Quiet /\ Panicw

SpecRace == Init /\ [][NextRace]_vars

\* C7: the process-wide handle is always one complete logger and Initialize
\* replaces it atomically: a global logging call that runs while Initialize
\* runs finds the complete previous handle or the complete new one, never a
\* type word of one with the data word of the other.
C7_HandleNeverTorn ==
    last.op \in LogOps =>
        (last.seen.tab = "nil" <=> last.seen.data = Nil)

====
